---- MODULE Spec2Model ----
(***************************************************************************)
(* Model of the ORATS Data API client: typed requests, the endpoint call   *)
(* protocol (mock switch, Request Cache, transport dispatch, envelope      *)
(* parsing) and the legacy endpoint revision.                              *)
(***************************************************************************)
EXTENDS Integers, Sequences, FiniteSets, TLC

(***************************************************************************)
(* Bounds of the model.                                                    *)
(***************************************************************************)
NCallers == 2
MaxCalls == 3
MaxParseCalls == 1
MaxWireCalls == 1

Callers == 1..NCallers

(***************************************************************************)
(* Python values held by request fields.                                   *)
(***************************************************************************)
PyNone == [t |-> "none"]
PyStr(s) == [t |-> "str", v |-> s]
PyList(xs) == [t |-> "list", v |-> xs]
PyDate(y, m, d) == [t |-> "date", v |-> <<y, m, d>>]
PyFloat(n) == [t |-> "float", v |-> n]
PyInt(n) == [t |-> "int", v |-> n]
PyTuple(xs) == [t |-> "tuple", v |-> xs]
\* the Ellipsis object, the unbounded side of a BoundedRange
PyEllipsis == [t |-> "ellipsis"]

IsNone(x) == x.t = "none"

Digit(d) ==
  CASE d = 0 -> "0" [] d = 1 -> "1" [] d = 2 -> "2" [] d = 3 -> "3"
    [] d = 4 -> "4" [] d = 5 -> "5" [] d = 6 -> "6" [] d = 7 -> "7"
    [] d = 8 -> "8" [] d = 9 -> "9"

RECURSIVE Itoa(_)
Itoa(n) == IF n < 10 THEN Digit(n) ELSE Itoa(n \div 10) \o Digit(n % 10)

Pad2(n) == IF n < 10 THEN "0" \o Digit(n) ELSE Itoa(n)

\* datetime.date.__str__ / isoformat: YYYY-MM-DD
FormatDate(d) == Itoa(d[1]) \o "-" \o Pad2(d[2]) \o "-" \o Pad2(d[3])

RECURSIVE Join(_, _)
Join(sep, xs) ==
  IF xs = <<>> THEN ""
  ELSE IF Len(xs) = 1 THEN xs[1]
  ELSE xs[1] \o sep \o Join(sep, Tail(xs))

Map(f(_), xs) == [i \in 1..Len(xs) |-> f(xs[i])]

Quote(s) == "'" \o s \o "'"

\* Python str() of a field value, as used by the cache key
RECURSIVE Str(_)
Str(x) ==
  CASE x.t = "none" -> "None"
    [] x.t = "str" -> x.v
    [] x.t = "list" -> "[" \o Join(", ", Map(Quote, x.v)) \o "]"
    [] x.t = "date" -> FormatDate(x.v)
    [] x.t = "float" -> Itoa(x.v) \o ".0"
    [] x.t = "int" -> Itoa(x.v)
    [] x.t = "ellipsis" -> "Ellipsis"
    [] x.t = "tuple" -> "(" \o Join(", ", Map(Str, x.v)) \o ")"

(***************************************************************************)
(* Requests: an ordered list of fields (name, wire alias, value).          *)
(***************************************************************************)
Fld(name, alias, val) == [name |-> name, alias |-> alias, val |-> val]

TickersRequest(ticker) ==
  [cls |-> "TickersRequest",
   fields |-> << Fld("ticker", "ticker", ticker) >>]

StrikesRequest(tickers, flds, expirationRange, deltaRange, tradeDate) ==
  [cls |-> "StrikesRequest",
   fields |-> << Fld("tickers", "ticker", tickers),
                 Fld("fields", "fields", flds),
                 Fld("expiration_range", "dte", expirationRange),
                 Fld("delta_range", "delta", deltaRange),
                 Fld("trade_date", "tradeDate", tradeDate) >>]

StrikesByOptionsRequest(ticker, tradeDate, expirDate, strike) ==
  [cls |-> "StrikesByOptionsRequest",
   fields |-> << Fld("ticker", "ticker", ticker),
                 Fld("trade_date", "tradeDate", tradeDate),
                 Fld("expiration_date", "expirDate", expirDate),
                 Fld("strike", "strike", strike) >>]

MoniesRequest(tickers, flds, tradeDate) ==
  [cls |-> "MoniesRequest",
   fields |-> << Fld("tickers", "ticker", tickers),
                 Fld("fields", "fields", flds),
                 Fld("trade_date", "tradeDate", tradeDate) >>]

DailyPriceRequest(tickers, flds, tradeDate) ==
  [cls |-> "DailyPriceRequest",
   fields |-> << Fld("tickers", "ticker", tickers),
                 Fld("fields", "fields", flds),
                 Fld("trade_date", "tradeDate", tradeDate) >>]

HistoricalVolatilityRequest(tickers, flds, tradeDate) ==
  [cls |-> "HistoricalVolatilityRequest",
   fields |-> << Fld("tickers", "ticker", tickers),
                 Fld("fields", "fields", flds),
                 Fld("trade_date", "tradeDate", tradeDate) >>]

DividendHistoryRequest(ticker) ==
  [cls |-> "DividendHistoryRequest",
   fields |-> << Fld("ticker", "ticker", ticker) >>]

EarningsHistoryRequest(ticker) ==
  [cls |-> "EarningsHistoryRequest",
   fields |-> << Fld("ticker", "ticker", ticker) >>]

StockSplitHistoryRequest(ticker) ==
  [cls |-> "StockSplitHistoryRequest",
   fields |-> << Fld("ticker", "ticker", ticker) >>]

HasField(req, name) == \E i \in 1..Len(req.fields) : req.fields[i].name = name

Field(req, name) ==
  (CHOOSE i \in 1..Len(req.fields) : req.fields[i].name = name)

\* request.<name>
Attr(req, name) == req.fields[Field(req, name)].val

\* isinstance(request, DataHistoryApiRequest): the requests that declare
\* a trade_date field
IsHistoryRequest(req) == HasField(req, "trade_date")

\* request.dict().values()
DictValues(req) == [i \in 1..Len(req.fields) |-> req.fields[i].val]

\* request.dict(by_alias=True)
DictByAlias(req) == [i \in 1..Len(req.fields) |->
                       [k |-> req.fields[i].alias, v |-> req.fields[i].val]]

(***************************************************************************)
(* Construction of a request with validation.                              *)
(***************************************************************************)
\* a keyword argument left out of the constructor call
Missing == [t |-> "missing"]

\* a field left out takes its default, None
Default(arg) == IF arg.t = "missing" THEN PyNone ELSE arg

\* dependency_check(v, values), the validator of trade_date
DependencyCheck(v, tickers) ==
  IF IsNone(tickers) /\ IsNone(v)
  THEN [ok |-> FALSE, kind |-> "ValidationError",
        msg |-> "one of tickers or trade_date is required"]
  ELSE [ok |-> TRUE, val |-> v]

\* construction of a _MultipleTickersHistoryTemplateRequest subclass: the
\* validator of trade_date is declared without always=True, so it runs on
\* a value that is given (None included) and not on a field left out
NewHistoryRequest(cls, tickers, flds, tradeDate) ==
  LET check == IF tradeDate.t = "missing" THEN [ok |-> TRUE, val |-> PyNone]
               ELSE DependencyCheck(tradeDate, Default(tickers))
  IN IF ~check.ok THEN check
     ELSE [ok |-> TRUE,
           val |-> IF cls = "DailyPriceRequest"
                   THEN DailyPriceRequest(Default(tickers), Default(flds),
                                          Default(tradeDate))
                   ELSE HistoricalVolatilityRequest(Default(tickers),
                                                    Default(flds),
                                                    Default(tradeDate))]

(***************************************************************************)
(* Bounded ranges as the higher-level constructs build them.               *)
(***************************************************************************)
\* constructs.data._bounded_range: a negative bound means "no bound"
BoundedRange(lower, upper) ==
  IF lower < 0 /\ upper < 0 THEN PyNone
  ELSE IF lower < 0 THEN PyTuple(<< PyEllipsis, PyInt(upper) >>)
  ELSE IF upper < 0 THEN PyTuple(<< PyInt(lower), PyEllipsis >>)
  ELSE PyTuple(<< PyInt(lower), PyInt(upper) >>)

\* constructs.industry.common.bounds: ",".join(map(str, (lower, upper)))
Bounds(lower, upper) == Join(",", << Str(lower), Str(upper) >>)

(***************************************************************************)
(* Endpoints.                                                              *)
(***************************************************************************)
BaseUrl == "https://api.orats.io/datav2"

\* the fallback credential: the environment's ORATS_API_TOKEN, "demo" when
\* it is not set
GetToken == "demo"

\* DataApiEndpoint.__init__: self._token = token or get_token(); "given"
\* keeps the constructor's argument
Endpoint(resource, historical, token, mock) ==
  [resource |-> resource, historical |-> historical,
   token |-> IF IsNone(token) \/ token.v = "" THEN GetToken ELSE token.v,
   given |-> token, mock |-> mock]

TickersEndpoint(token, mock) == Endpoint("tickers", FALSE, token, mock)
StrikesEndpoint(token, mock) == Endpoint("strikes", FALSE, token, mock)
StrikesByOptionsEndpoint(token, mock) ==
  Endpoint("strikes/options", FALSE, token, mock)
MoniesImpliedEndpoint(token, mock) ==
  Endpoint("monies/implied", FALSE, token, mock)
MoniesForecastEndpoint(token, mock) ==
  Endpoint("monies/forecast", FALSE, token, mock)
DailyPriceEndpoint(token, mock) == Endpoint("dailies", TRUE, token, mock)
HistoricalVolatilityEndpoint(token, mock) ==
  Endpoint("hvs", TRUE, token, mock)
DividendHistoryEndpoint(token, mock) == Endpoint("divs", TRUE, token, mock)
EarningsHistoryEndpoint(token, mock) ==
  Endpoint("earnings", TRUE, token, mock)
StockSplitHistoryEndpoint(token, mock) ==
  Endpoint("splits", TRUE, token, mock)

\* a key built from the resource name alone
KeyResourceOnly(resource, components) == resource \o "-"

\* DataApiEndpoint._key
Key(resource, components) ==
  resource \o "-" \o Join("-", Map(Str, components))

\* DataApiEndpoint._url
Url(resource, historical) ==
  Join("/", << BaseUrl,
               IF historical THEN "hist/" \o resource ELSE resource >>)

Param(k, v) == [k |-> k, v |-> v]

\* a loop that passes None values on
RECURSIVE UpdateLoopKeepingNone(_, _)
UpdateLoopKeepingNone(acc, params) ==
  IF params = <<>> THEN acc
  ELSE LET p == Head(params)
           rendered ==
             IF p.v.t = "list" THEN PyStr(Join(",", p.v.v))
             ELSE IF p.v.t = "tuple" THEN PyStr(Join(",", Map(Str, p.v.v)))
             ELSE p.v
       IN UpdateLoopKeepingNone(Append(acc, Param(p.k, rendered)),
                                Tail(params))

RECURSIVE UpdateLoop(_, _)
UpdateLoop(acc, params) ==
  IF params = <<>> THEN acc
  ELSE LET p == Head(params)
           rendered ==
             IF p.v.t = "list" THEN PyStr(Join(",", p.v.v))
             ELSE IF p.v.t = "tuple" THEN PyStr(Join(",", Map(Str, p.v.v)))
             ELSE p.v
       IN IF IsNone(p.v)
          THEN UpdateLoop(acc, Tail(params))
          ELSE UpdateLoop(Append(acc, Param(p.k, rendered)), Tail(params))

\* parameters that always carry the fallback credential
UpdateParamsDefaultToken(token, params) ==
  UpdateLoop(<< Param("token", PyStr(GetToken)) >>, params)

\* DataApiEndpoint._update_params
UpdateParams(token, params) ==
  UpdateLoop(<< Param("token", PyStr(token)) >>, params)

Invocation(method, url, params, body) ==
  [method |-> method, url |-> url, params |-> params, body |-> body]

NoInvocation == Invocation("none", "", <<>>, <<>>)

\* a decision that looks at the trade date alone
IsHistoricalByTradeDate(ep, req) ==
  IsHistoryRequest(req) /\ ~IsNone(Attr(req, "trade_date"))

\* the historical decision of DataApiEndpoint._get
IsHistoricalCall(ep, req) ==
  IF ~ep.historical /\ IsHistoryRequest(req)
  THEN ~IsNone(Attr(req, "trade_date"))
  ELSE ep.historical

\* DataApiEndpoint._get: the GET handed to httpx
Get(ep, req) ==
  Invocation("GET", Url(ep.resource, IsHistoricalCall(ep, req)),
             UpdateParams(ep.token, DictByAlias(req)), <<>>)

\* json.loads(request.json(by_alias=True)): None becomes null, a date its
\* ISO string
JsonValue(x) ==
  CASE x.t = "none" -> [t |-> "null"]
    [] x.t = "date" -> PyStr(FormatDate(x.v))
    [] OTHER -> x

JsonOfRequest(req) ==
  [i \in 1..Len(req.fields) |->
     Param(req.fields[i].alias, JsonValue(req.fields[i].val))]

\* StrikesByOptionsEndpoint._post: the POST handed to httpx
Post(ep, reqs) ==
  Invocation("POST", Url(ep.resource, FALSE),
             UpdateParams(ep.token, <<>>), Map(JsonOfRequest, reqs))

(***************************************************************************)
(* Transport replies and the response envelope.                            *)
(***************************************************************************)
Dates == { <<2007, 1, 3>>, <<2022, 6, 6>>, <<2022, 6, 17>> }

Ok(val) == [ok |-> TRUE, val |-> val]
Raise(kind, msg) == [ok |-> FALSE, kind |-> kind, msg |-> msg]

\* orats.errors.OratsError
OratsError(message) == Raise("OratsError", "Oh, rats! " \o message)

\* orats.errors.InsufficientPermissionsError
InsufficientPermissionsError ==
  Raise("InsufficientPermissionsError",
        "Oh, rats! User does not have access to this resource.")

\* an HTTP reply, or a network-level failure raised by httpx
Reply(status, decodable, env) ==
  [kind |-> "reply", status |-> status, decodable |-> decodable, env |-> env]
NetworkFailure == [kind |-> "failure"]
NoReply == [kind |-> "none"]

Envelope(data, message, error) ==
  [data |-> data, message |-> message, error |-> error]
NoEnvelope == Envelope(PyNone, PyNone, PyNone)

\* _handle_response: the status check comes before the body is decoded
HandleResponse(reply) ==
  IF reply.kind = "failure" THEN Raise("ConnectError", "")
  ELSE IF reply.status = 403 THEN InsufficientPermissionsError
  ELSE IF ~reply.decodable THEN Raise("JSONDecodeError", "")
  ELSE Ok(reply.env)

\* coercion of an ISO date string to a date
IsDateString(s) == \E d \in Dates : FormatDate(d) = s
ParseDate(s) == CHOOSE d \in Dates : FormatDate(d) = s

\* validation of one raw element against the Ticker construct:
\* ticker, min and max are required; min and max must coerce to dates
ValidElement(raw) ==
  /\ {"ticker", "min", "max"} \subseteq DOMAIN raw
  /\ IsDateString(raw.min)
  /\ IsDateString(raw.max)

Construct(raw) ==
  [ticker |-> raw.ticker,
   min_date |-> ParseDate(raw.min),
   max_date |-> ParseDate(raw.max)]

\* DataApiResponse.check_failures, the validator of "error" and "message"
CheckFailures(v) == IF ~IsNone(v) THEN OratsError(v.v) ELSE Ok(v)

\* a parser that reads data and never looks at error or message
ParseEnvelopeDataOnly(env) ==
  IF /\ ~IsNone(env.data)
     /\ \E i \in 1..Len(env.data.v) : ~ValidElement(env.data.v[i])
  THEN Raise("ValidationError", "data")
  ELSE IF IsNone(env.data) THEN Ok(PyNone)
  ELSE Ok(PyList(Map(Construct, env.data.v)))

\* a parser that reports the validation error of data before the
\* server-reported failure
ParseEnvelopeDataFirst(env) ==
  LET dataBad == /\ ~IsNone(env.data)
                 /\ \E i \in 1..Len(env.data.v) : ~ValidElement(env.data.v[i])
      m == CheckFailures(env.message)
      e == CheckFailures(env.error)
  IN IF dataBad THEN Raise("ValidationError", "data")
     ELSE IF ~m.ok THEN m
     ELSE IF ~e.ok THEN e
     ELSE IF IsNone(env.data) THEN Ok(PyNone)
     ELSE Ok(PyList(Map(Construct, env.data.v)))

\* a parser that drops the elements that fail validation
ParseEnvelopeSkippingInvalid(env) ==
  LET m == CheckFailures(env.message)
      e == CheckFailures(env.error)
  IN IF ~m.ok THEN m
     ELSE IF ~e.ok THEN e
     ELSE IF IsNone(env.data) THEN Ok(PyNone)
     ELSE Ok(PyList(Map(Construct, SelectSeq(env.data.v, ValidElement))))

\* DataApiResponse[T](**envelope): fields are validated in declaration
\* order data, message, error; a validation error of data is collected and
\* raised at the end, an OratsError of a validator is raised at once
ParseEnvelope(env) ==
  LET dataBad == /\ ~IsNone(env.data)
                 /\ \E i \in 1..Len(env.data.v) : ~ValidElement(env.data.v[i])
      m == CheckFailures(env.message)
      e == CheckFailures(env.error)
  IN IF ~m.ok THEN m
     ELSE IF ~e.ok THEN e
     ELSE IF dataBad THEN Raise("ValidationError", "data")
     ELSE IF IsNone(env.data) THEN Ok(PyNone)
     ELSE Ok(PyList(Map(Construct, env.data.v)))

\* response.data or ()
DataOrEmpty(data) == IF IsNone(data) THEN <<>> ELSE data.v

(***************************************************************************)
(* State.                                                                  *)
(***************************************************************************)
VARIABLES
  cache,      \* RequestCache._cache: key -> record sequence
  calls,      \* per caller: the call it is making
  started,    \* number of calls begun
  gets,       \* (resource, values) -> GET invocations made for it
  okGets,     \* (resource, values) -> GETs whose call went on to return
  posts,      \* number of POST invocations
  returned,   \* (resource, values) -> record sequences returned for it
  parsed,     \* (resource, values) -> record sequences parsed for it
  overlapped, \* some call began while another was suspended
  quoted,     \* the mid value being quoted and the prices generated for it
  fetchedBy,  \* (resource, values) -> tokens whose GET returned records
  chain       \* an OptionChain object: its filters and memoized response

vars == << cache, calls, started, gets, okGets, posts, returned, parsed,
           overlapped, quoted, fetchedBy, chain >>

NoEndpoint == Endpoint("", FALSE, PyNone, FALSE)
NoOutcome == Raise("none", "")

\* no OptionChain constructed
NoChain == [rev |-> "none"]

\* no mid value under quotation
NoQuote ==
  [value |-> 0, up |-> FALSE, bid |-> NoOutcome, ask |-> NoOutcome,
   neither |-> NoOutcome]

Idle ==
  [pc |-> "idle", ep |-> NoEndpoint, reqs |-> <<>>, key |-> "",
   sent |-> NoInvocation, reply |-> NoReply, outcome |-> NoOutcome,
   hit |-> FALSE, legacy |-> FALSE, id |-> << "", << >> >>]

At(f, k, default) == IF k \in DOMAIN f THEN f[k] ELSE default
Put(f, k, v) == (k :> v) @@ f

Init ==
  /\ cache = << >>
  /\ calls = [c \in Callers |-> Idle]
  /\ started = 0
  /\ gets = << >>
  /\ okGets = << >>
  /\ posts = 0
  /\ returned = << >>
  /\ parsed = << >>
  /\ overlapped = FALSE
  /\ quoted = NoQuote
  /\ fetchedBy = << >>
  /\ chain = NoChain

\* what a single-request call asks for: the resource and the request's
\* parameter values
Ident(ep, req) == << ep.resource, DictValues(req) >>

Suspended(c) == calls[c].pc = "waiting"

Begin(c) ==
  /\ started' = started + 1
  /\ overlapped' = (overlapped \/ \E d \in Callers \ {c} : Suspended(d))
  /\ UNCHANGED << quoted, fetchedBy, chain >>

\* values of common.universe(), the random symbols generated when a request
\* names no ticker
Universes == { << "A" >>, << "ZZ", "B" >> }

\* FakeDataGenerator.ticker: a record for the ticker with generated dates
GenerateTicker(ticker, seed) ==
  [ticker |-> ticker, min_date |-> seed, max_date |-> seed]

\* FakeDataGenerator.money_implied / money_forecast: a record for the
\* ticker at the given days to expiration
GenerateMoney(ticker, dte, seed) ==
  [ticker |-> ticker, dte |-> dte, trade_date |-> seed]

\* range(start, stop, step) for a positive step
Range(start, stop, step) ==
  [i \in 1..((stop - start + step - 1) \div step) |-> start + (i - 1) * step]

\* the tenor ladder of the monies resources: range(1, 100, 7)
Tenors == Range(1, 100, 7)

\* the tickers a request names: [request.ticker] or request.tickers, empty
\* when the field is None or empty
NamedTickers(req) ==
  IF HasField(req, "ticker")
  THEN IF IsNone(Attr(req, "ticker")) \/ Attr(req, "ticker").v = ""
       THEN << >> ELSE << Attr(req, "ticker").v >>
  ELSE IF IsNone(Attr(req, "tickers")) THEN << >>
       ELSE Attr(req, "tickers").v

\* records for the first named ticker only
GenerateFakeDataFirstOnly(ep, reqs, seed, universe) ==
  IF reqs = << >> THEN << >>
  ELSE LET named == NamedTickers(reqs[1])
           first == IF named = << >> THEN universe[1] ELSE named[1]
       IN << GenerateTicker(first, seed) >>

\* _generate_fake_data of the endpoints: by-options, one record per request;
\* monies, one record per ticker per tenor; the others, one record per
\* ticker; the tickers are those the request names, or common.universe()
GenerateFakeData(ep, reqs, seed, universe) ==
  IF ep.resource = "strikes/options"
  THEN [i \in 1..Len(reqs) |->
          GenerateTicker(Attr(reqs[i], "ticker").v, seed)]
  ELSE LET named == NamedTickers(reqs[1])
           tickers == IF named = << >> THEN universe ELSE named
           n == Len(Tenors)
       IN IF ep.resource \in {"monies/implied", "monies/forecast"}
          THEN [k \in 1..(Len(tickers) * n) |->
                  GenerateMoney(tickers[((k - 1) \div n) + 1],
                                Tenors[((k - 1) % n) + 1], seed)]
          ELSE [i \in 1..Len(tickers) |-> GenerateTicker(tickers[i], seed)]

(***************************************************************************)
(* DataApiEndpoint.__call__ up to the transport boundary: the mock switch, *)
(* the cache check and, on a miss, the GET.                                *)
(***************************************************************************)
CallSingle(c, ep, req, limit) ==
  /\ calls[c].pc = "idle"
  /\ started < limit
  /\ Begin(c)
  /\ LET key == Key(ep.resource, DictValues(req))
         id == Ident(ep, req)
         base == [Idle EXCEPT !.ep = ep, !.reqs = << req >>, !.id = id]
     IN IF ep.mock
        THEN /\ \E seed \in Dates, universe \in Universes :
                  calls' = [calls EXCEPT ![c] =
                    [base EXCEPT !.pc = "done",
                       !.outcome =
                         Ok(GenerateFakeData(ep, << req >>, seed, universe))]]
             /\ UNCHANGED << cache, gets, okGets, posts, returned, parsed >>
        ELSE IF key \in DOMAIN cache
        THEN /\ calls' = [calls EXCEPT ![c] =
                  [base EXCEPT !.pc = "done", !.key = key, !.hit = TRUE,
                               !.outcome = Ok(cache[key])]]
             /\ returned' = Put(returned, id,
                                At(returned, id, {}) \cup {cache[key]})
             /\ UNCHANGED << cache, gets, okGets, posts, parsed >>
        ELSE /\ calls' = [calls EXCEPT ![c] =
                  [base EXCEPT !.pc = "waiting", !.key = key,
                               !.sent = Get(ep, req)]]
             /\ gets' = Put(gets, id, At(gets, id, 0) + 1)
             /\ UNCHANGED << cache, okGets, posts, returned, parsed >>

(***************************************************************************)
(* DataApiEndpoint.__call__ from the transport reply on: the status check, *)
(* envelope parsing, the cache write and the return.                       *)
(***************************************************************************)
\* the same with the first entry written for a key kept
ReceiveSingleFirstWriter(c, reply) ==
  /\ calls[c].pc = "waiting"
  /\ calls[c].sent.method = "GET"
  /\ ~calls[c].legacy
  /\ LET key == calls[c].key
         id == calls[c].id
         h == HandleResponse(reply)
         r == IF h.ok THEN ParseEnvelope(h.val) ELSE h
     IN IF r.ok
        THEN LET data == DataOrEmpty(r.val)
             IN /\ cache' = IF key \in DOMAIN cache THEN cache
                             ELSE Put(cache, key, data)
                /\ calls' = [calls EXCEPT ![c].pc = "done",
                                          ![c].reply = reply,
                                          ![c].outcome = Ok(data)]
                /\ okGets' = Put(okGets, id, At(okGets, id, 0) + 1)
                /\ returned' = Put(returned, id,
                                   At(returned, id, {}) \cup {data})
                /\ parsed' = Put(parsed, id, At(parsed, id, {}) \cup {data})
                /\ fetchedBy' = Put(fetchedBy, id,
                                    At(fetchedBy, id, {})
                                      \cup {calls[c].ep.token})
        ELSE /\ calls' = [calls EXCEPT ![c].pc = "failed",
                                       ![c].reply = reply,
                                       ![c].outcome = r]
             /\ UNCHANGED << cache, okGets, returned, parsed, fetchedBy, chain >>
  /\ UNCHANGED << started, gets, posts, overlapped, quoted, chain >>

\* the same with an empty result not written to the cache
ReceiveSingleSkippingEmpty(c, reply) ==
  /\ calls[c].pc = "waiting"
  /\ calls[c].sent.method = "GET"
  /\ ~calls[c].legacy
  /\ LET key == calls[c].key
         id == calls[c].id
         h == HandleResponse(reply)
         r == IF h.ok THEN ParseEnvelope(h.val) ELSE h
     IN IF r.ok
        THEN LET data == DataOrEmpty(r.val)
             IN /\ cache' = IF data = << >> THEN cache
                             ELSE Put(cache, key, data)
                /\ calls' = [calls EXCEPT ![c].pc = "done",
                                          ![c].reply = reply,
                                          ![c].outcome = Ok(data)]
                /\ okGets' = Put(okGets, id, At(okGets, id, 0) + 1)
                /\ returned' = Put(returned, id,
                                   At(returned, id, {}) \cup {data})
                /\ parsed' = Put(parsed, id, At(parsed, id, {}) \cup {data})
                /\ fetchedBy' = Put(fetchedBy, id,
                                    At(fetchedBy, id, {})
                                      \cup {calls[c].ep.token})
        ELSE /\ calls' = [calls EXCEPT ![c].pc = "failed",
                                       ![c].reply = reply,
                                       ![c].outcome = r]
             /\ UNCHANGED << cache, okGets, returned, parsed, fetchedBy, chain >>
  /\ UNCHANGED << started, gets, posts, overlapped, quoted, chain >>

ReceiveSingle(c, reply) ==
  /\ calls[c].pc = "waiting"
  /\ calls[c].sent.method = "GET"
  /\ ~calls[c].legacy
  /\ LET key == calls[c].key
         id == calls[c].id
         h == HandleResponse(reply)
         r == IF h.ok THEN ParseEnvelope(h.val) ELSE h
     IN IF r.ok
        THEN LET data == DataOrEmpty(r.val)
             IN /\ cache' = Put(cache, key, data)
                /\ calls' = [calls EXCEPT ![c].pc = "done",
                                          ![c].reply = reply,
                                          ![c].outcome = Ok(data)]
                /\ okGets' = Put(okGets, id, At(okGets, id, 0) + 1)
                /\ returned' = Put(returned, id,
                                   At(returned, id, {}) \cup {data})
                /\ parsed' = Put(parsed, id, At(parsed, id, {}) \cup {data})
                /\ fetchedBy' = Put(fetchedBy, id,
                                    At(fetchedBy, id, {})
                                      \cup {calls[c].ep.token})
        ELSE /\ calls' = [calls EXCEPT ![c].pc = "failed",
                                       ![c].reply = reply,
                                       ![c].outcome = r]
             /\ UNCHANGED << cache, okGets, returned, parsed, fetchedBy, chain >>
  /\ UNCHANGED << started, gets, posts, overlapped, quoted, chain >>

(***************************************************************************)
(* StrikesByOptionsEndpoint.__call__ with any number of requests.          *)
(***************************************************************************)
\* the same with the mock switch left out of the several-request branch
CallByOptionsPostingMock(c, ep, reqs, limit) ==
  IF ~ep.mock /\ Len(reqs) = 1
  THEN CallSingle(c, ep, reqs[1], limit)
  ELSE
    /\ calls[c].pc = "idle"
    /\ started < limit
    /\ Begin(c)
    /\ LET base == [Idle EXCEPT !.ep = ep, !.reqs = reqs]
       IN IF ep.mock /\ Len(reqs) < 2
          THEN /\ \E seed \in Dates, universe \in Universes :
                    calls' = [calls EXCEPT ![c] =
                      [base EXCEPT !.pc = "done",
                         !.outcome =
                           Ok(GenerateFakeData(ep, reqs, seed, universe))]]
               /\ posts' = posts
          ELSE /\ calls' = [calls EXCEPT ![c] =
                    [base EXCEPT !.pc = "waiting", !.sent = Post(ep, reqs)]]
               /\ posts' = posts + 1
    /\ UNCHANGED << cache, gets, okGets, returned, parsed >>

CallByOptions(c, ep, reqs, limit) ==
  IF ~ep.mock /\ Len(reqs) = 1
  THEN CallSingle(c, ep, reqs[1], limit)
  ELSE
    /\ calls[c].pc = "idle"
    /\ started < limit
    /\ Begin(c)
    /\ LET base == [Idle EXCEPT !.ep = ep, !.reqs = reqs]
       IN IF ep.mock
          THEN /\ \E seed \in Dates, universe \in Universes :
                    calls' = [calls EXCEPT ![c] =
                      [base EXCEPT !.pc = "done",
                         !.outcome =
                           Ok(GenerateFakeData(ep, reqs, seed, universe))]]
               /\ posts' = posts
          ELSE /\ calls' = [calls EXCEPT ![c] =
                    [base EXCEPT !.pc = "waiting", !.sent = Post(ep, reqs)]]
               /\ posts' = posts + 1
    /\ UNCHANGED << cache, gets, okGets, returned, parsed >>

\* the batch branch after the POST reply: parse and return, no cache write
ReceiveBatch(c, reply) ==
  /\ calls[c].pc = "waiting"
  /\ calls[c].sent.method = "POST"
  /\ LET h == HandleResponse(reply)
         r == IF h.ok THEN ParseEnvelope(h.val) ELSE h
     IN calls' = [calls EXCEPT
                    ![c].pc = IF r.ok THEN "done" ELSE "failed",
                    ![c].reply = reply,
                    ![c].outcome = IF r.ok THEN Ok(DataOrEmpty(r.val)) ELSE r]
  /\ UNCHANGED << cache, started, gets, okGets, posts, returned, parsed,
                  overlapped, quoted, fetchedBy, chain >>

\* an abandoned call that leaves an empty entry behind
CancelLeavingEntry(c) ==
  /\ calls[c].pc = "waiting"
  /\ calls' = [calls EXCEPT ![c].pc = "cancelled"]
  /\ cache' = IF calls[c].sent.method = "GET" /\ ~calls[c].legacy
              THEN Put(cache, calls[c].key, << >>) ELSE cache
  /\ UNCHANGED << started, gets, okGets, posts, returned, parsed,
                  overlapped, quoted, fetchedBy, chain >>

\* the caller abandons a call suspended in the transport: the exception
\* unwinds __call__, which has no handler
Cancel(c) ==
  /\ calls[c].pc = "waiting"
  /\ calls' = [calls EXCEPT ![c].pc = "cancelled"]
  /\ UNCHANGED << cache, started, gets, okGets, posts, returned, parsed,
                  overlapped, quoted, fetchedBy, chain >>

\* the caller takes the result or the error and is free to call again
Return(c) ==
  /\ calls[c].pc \in {"done", "failed", "cancelled"}
  /\ calls' = [calls EXCEPT ![c] = Idle]
  /\ UNCHANGED << cache, started, gets, okGets, posts, returned, parsed,
                  overlapped, quoted, fetchedBy, chain >>

(***************************************************************************)
(* The legacy endpoint revision (orats/endpoints/data.py): no cache, one   *)
(* query method per resource, the reply handled inside _get.               *)
(***************************************************************************)
\* legacy DataApiEndpoint._url
LegacyUrl(path, historical) ==
  Join("/", << BaseUrl, IF historical THEN "hist/" \o path ELSE path >>)

RECURSIVE LegacyUpdateLoop(_, _)
LegacyUpdateLoop(acc, params) ==
  IF params = <<>> THEN acc
  ELSE IF IsNone(Head(params).v)
       THEN LegacyUpdateLoop(acc, Tail(params))
       ELSE LegacyUpdateLoop(Append(acc, Head(params)), Tail(params))

\* legacy DataApiEndpoint._update_params
LegacyUpdateParams(token, params) ==
  LegacyUpdateLoop(<< Param("token", PyStr(token)) >>, params)

\* legacy DataApiEndpoint._get up to httpx.get
LegacyGet(token, path, flds, tradeDate, params) ==
  LET p1 == IF ~IsNone(tradeDate)
            THEN Append(params, Param("tradeDate", tradeDate)) ELSE params
      p2 == IF ~IsNone(flds)
            THEN Append(p1, Param("fields", PyStr(Join(",", flds.v))))
            ELSE p1
  IN Invocation("GET", LegacyUrl(path, ~IsNone(tradeDate)),
                LegacyUpdateParams(token, p2), <<>>)

\* legacy TickersEndpoint.query up to httpx.get
LegacyTickersGet(token, req) ==
  LegacyGet(token, "tickers", PyNone, PyNone,
            << Param("ticker", Attr(req, "ticker")) >>)

\* ",".join([str(d) for d in range]) if range else range
LegacyRange(range) ==
  IF IsNone(range) THEN range ELSE PyStr(Join(",", Map(Str, range.v)))

\* legacy StrikesEndpoint.query and StrikesHistoryEndpoint.query up to
\* httpx.get
LegacyStrikesHistoryGet(token, req) ==
  LegacyGet(token, "strikes", Attr(req, "fields"), Attr(req, "trade_date"),
            << Param("ticker", PyStr(Join(",", Attr(req, "tickers").v))),
               Param("dte", LegacyRange(Attr(req, "expiration_range"))),
               Param("delta", LegacyRange(Attr(req, "delta_range"))) >>)

LegacySend(token, req) ==
  IF req.cls = "TickersRequest" THEN LegacyTickersGet(token, req)
  ELSE LegacyStrikesHistoryGet(token, req)

\* legacy DataApiEndpoint._get after httpx.get, then the construction of
\* the response objects in query: the body is decoded before the status is
\* looked at, and every element is indexed by "dte"
LegacyHandle(reply) ==
  IF reply.kind = "failure" THEN Raise("ConnectError", "")
  ELSE IF ~reply.decodable THEN Raise("JSONDecodeError", "")
  ELSE IF reply.status = 403
  THEN Raise("UnauthorizedUserError", "")
  ELSE IF IsNone(reply.env.data) THEN Raise("KeyError", "data")
  ELSE LET data == reply.env.data.v
       IN IF \E i \in 1..Len(data) : "dte" \notin DOMAIN data[i]
          THEN Raise("KeyError", "dte")
          ELSE IF \E i \in 1..Len(data) : ~ValidElement(data[i])
          THEN Raise("ValidationError", "data")
          ELSE Ok(Map(Construct, data))

\* legacy query up to the transport boundary
LegacyQuery(c, token, req, limit) ==
  /\ calls[c].pc = "idle"
  /\ started < limit
  /\ Begin(c)
  /\ calls' = [calls EXCEPT ![c] =
       [Idle EXCEPT !.pc = "waiting", !.legacy = TRUE,
                    !.ep = Endpoint(req.cls, FALSE, PyStr(token), FALSE),
                    !.reqs = << req >>, !.sent = LegacySend(token, req)]]
  /\ UNCHANGED << cache, gets, okGets, posts, returned, parsed >>

\* legacy query from the transport reply on
LegacyReceive(c, reply) ==
  /\ calls[c].pc = "waiting"
  /\ calls[c].legacy
  /\ LET r == LegacyHandle(reply)
     IN calls' = [calls EXCEPT
                    ![c].pc = IF r.ok THEN "done" ELSE "failed",
                    ![c].reply = reply,
                    ![c].outcome = r]
  /\ UNCHANGED << cache, started, gets, okGets, posts, returned, parsed,
                  overlapped, quoted, fetchedBy, chain >>

(***************************************************************************)
(* Inputs: the endpoints, requests and transport replies explored.         *)
(***************************************************************************)
Tokens == { PyNone, PyStr(""), PyStr("demo"), PyStr("tokA") }
TradeDate == PyDate(2022, 6, 6)
ExpirDate == PyDate(2022, 6, 17)

E1 == [ticker |-> "IBM", min |-> "2007-01-03", max |-> "2022-06-06"]
E2 == [ticker |-> "IBM", min |-> "2007-01-03", max |-> "2022-06-17"]
EDte == [ticker |-> "IBM", min |-> "2007-01-03", max |-> "2022-06-06",
         dte |-> "30"]
EBadDate == [ticker |-> "IBM", min |-> "soon", max |-> "2022-06-06"]
EMissing == [ticker |-> "IBM", min |-> "2007-01-03"]

Data(elems) == PyList(elems)
OkReply(elems) == Reply(200, TRUE, Envelope(Data(elems), PyNone, PyNone))

Option(ep, reqs) == [ep |-> ep, reqs |-> reqs]

ByOptions(strike, tradeDate) ==
  StrikesByOptionsRequest(PyStr("IBM"), tradeDate, ExpirDate, PyFloat(strike))

\* cache protocol: few requests, few replies, several calls
ProtoSingles ==
  { Option(TickersEndpoint(PyStr("demo"), FALSE), << TickersRequest(PyStr("IBM")) >>),
    Option(TickersEndpoint(PyStr("tokA"), FALSE), << TickersRequest(PyStr("IBM")) >>),
    Option(TickersEndpoint(PyStr("demo"), FALSE), << TickersRequest(PyStr("AAPL")) >>),
    Option(TickersEndpoint(PyStr("demo"), TRUE), << TickersRequest(PyStr("IBM")) >>) }

ProtoReplies ==
  { NetworkFailure,
    OkReply(<< E1 >>),
    OkReply(<< E2 >>),
    Reply(200, TRUE, Envelope(Data(<< E1 >>), PyNone, PyStr("boom"))),
    Reply(200, TRUE, NoEnvelope) }

\* reply handling: every status, body and envelope shape, few calls
Statuses == {200, 403, 500}

Envelopes ==
  { Envelope(d, m, e) :
      d \in { PyNone, Data(<< >>), Data(<< E1 >>), Data(<< EDte >>),
              Data(<< E1, EBadDate >>), Data(<< EMissing >>) },
      m \in { PyNone, PyStr("msg") },
      e \in { PyNone, PyStr(""), PyStr("boom") } }

ParseReplies ==
  { NetworkFailure }
  \cup { Reply(st, FALSE, NoEnvelope) : st \in Statuses }
  \cup { Reply(st, TRUE, env) : st \in Statuses, env \in Envelopes }

ParseSingles ==
  { Option(TickersEndpoint(PyStr("demo"), FALSE), << TickersRequest(PyStr("IBM")) >>) }

ParseByOptions ==
  { Option(StrikesByOptionsEndpoint(PyStr("demo"), FALSE),
           << ByOptions(50, PyNone), ByOptions(55, PyNone) >>) }

ParseLegacy ==
  { Option(TickersEndpoint(PyStr("demo"), FALSE), << TickersRequest(PyStr("IBM")) >>) }

\* dispatch: every endpoint and request shape, few replies, one call
TickerLists == { PyNone, PyList(<< "IBM" >>), PyList(<< "IBM", "AAPL" >>) }
FieldLists == { PyNone, PyList(<< "ticker", "dte" >>) }
TradeDates == { PyNone, TradeDate }

\* the ranges of OptionChain's filters, and the fully unbounded pair
Ranges ==
  { BoundedRange(l, u) : l \in {-1, 30}, u \in {-1, 45} }
  \cup { PyTuple(<< PyEllipsis, PyEllipsis >>) }

StrikesRequests ==
  { StrikesRequest(ts, fs, PyNone, PyNone, td) :
      ts \in TickerLists \ {PyNone}, fs \in FieldLists, td \in TradeDates }
  \cup { StrikesRequest(PyList(<< "IBM" >>), PyNone, r, PyNone, PyNone) :
           r \in Ranges }
  \cup { StrikesRequest(PyList(<< "IBM" >>), PyNone, PyNone,
                        PyTuple(<< PyEllipsis, PyFloat(1) >>), TradeDate) }

\* constructs.industry.options.chains up to the endpoint call
Chains(ticker, tradeDate, minDelta, maxDelta, minDte, maxDte, token) ==
  Option(StrikesEndpoint(token, FALSE),
         << StrikesRequest(PyStr(ticker), PyNone,
                           PyStr(Bounds(minDte, maxDte)),
                           PyStr(Bounds(minDelta, maxDelta)), tradeDate) >>)

ChainsCalls ==
  { Chains("IBM", PyNone, PyNone, PyNone, lo, hi, PyNone) :
      lo \in { PyNone, PyInt(30) }, hi \in { PyNone, PyInt(45) } }

\* the DailyPriceRequest objects that construction yields, each argument
\* given or left out
DailyPriceRequests ==
  { r.val : r \in
      { n \in { NewHistoryRequest("DailyPriceRequest", ts, fs, td) :
                  ts \in TickerLists \cup {Missing},
                  fs \in FieldLists \cup {Missing},
                  td \in TradeDates \cup {Missing} } : n.ok } }

HistoricalVolatilityRequests ==
  { r.val : r \in
      { n \in { NewHistoryRequest("HistoricalVolatilityRequest",
                                  ts, Missing, td) :
                  ts \in { Missing, PyList(<< "IBM" >>) },
                  td \in TradeDates \cup {Missing} } : n.ok } }

ByOptionsRequests ==
  { ByOptions(k, td) : k \in {50, 55}, td \in TradeDates }
  \cup { StrikesByOptionsRequest(PyStr("AAPL"), PyNone, ExpirDate,
                                 PyFloat(50)) }

\* mock-mode calls of the ticker-keyed resources
MockCalls ==
  { Option(TickersEndpoint(PyStr("demo"), TRUE), << TickersRequest(PyNone) >>) }
  \cup { Option(StrikesEndpoint(PyStr("demo"), TRUE),
                << StrikesRequest(ts, PyNone, PyNone, PyNone, PyNone) >>) :
           ts \in TickerLists \ {PyNone} }
  \cup { Option(ep, << MoniesRequest(ts, PyNone, PyNone) >>) :
           ep \in { MoniesImpliedEndpoint(PyStr("demo"), TRUE),
                    MoniesForecastEndpoint(PyNone, TRUE) },
           ts \in TickerLists \ {PyNone} }

WireSingles ==
  { Option(TickersEndpoint(tok, m), << TickersRequest(PyStr("IBM")) >>) :
      tok \in Tokens, m \in BOOLEAN }
  \cup { Option(StrikesEndpoint(PyStr("demo"), FALSE), << r >>) :
           r \in StrikesRequests }
  \cup ChainsCalls
  \cup MockCalls
  \cup { Option(DailyPriceEndpoint(PyStr("demo"), FALSE), << r >>) :
           r \in DailyPriceRequests }
  \cup { Option(HistoricalVolatilityEndpoint(PyStr("demo"), FALSE), << r >>) :
           r \in HistoricalVolatilityRequests }
  \cup { Option(DividendHistoryEndpoint(PyStr("demo"), FALSE),
                << DividendHistoryRequest(PyStr("IBM")) >>),
         Option(EarningsHistoryEndpoint(PyStr("demo"), FALSE),
                << EarningsHistoryRequest(PyStr("IBM")) >>),
         Option(StockSplitHistoryEndpoint(PyStr("demo"), FALSE),
                << StockSplitHistoryRequest(PyStr("IBM")) >>) }

WireByOptions ==
  { Option(StrikesByOptionsEndpoint(PyStr("demo"), m), reqs) :
      m \in BOOLEAN,
      reqs \in { << >> }
               \cup { << r >> : r \in ByOptionsRequests }
               \cup { << r1, ByOptions(55, td) >> :
                        r1 \in ByOptionsRequests, td \in TradeDates } }
  \cup { Option(StrikesByOptionsEndpoint(tok, FALSE),
                << ByOptions(50, PyNone), ByOptions(55, PyNone) >>) :
           tok \in Tokens }

WireLegacy ==
  { Option(StrikesEndpoint(PyStr("demo"), FALSE), << r >>) : r \in StrikesRequests }

WireReplies == { NetworkFailure, OkReply(<< E1 >>) }

(***************************************************************************)
(* endpoints/common.py quote: a bid or an ask price generated around a mid *)
(* value.  Amounts are in thousandths.                                     *)
(***************************************************************************)
MaxMid == 12

\* mid values: 10.000, 10.001, ...
Mids == { 10000 + k : k \in 0..MaxMid }

\* values of random.random(), which lie in [0, 1)
Randoms == { 0, 1, 4, 6, 500, 999 }

\* round(x, 2): the nearest hundredth; an amount ending in 5 thousandths
\* goes to the hundredth its binary representation lies nearer to, which
\* the flag up stands for
Round2(x, up) ==
  LET q == x \div 10
      r == x % 10
  IN IF r < 5 \/ (r = 5 /\ ~up) THEN 10 * q ELSE 10 * (q + 1)

\* quote(value, bid, ask) when random.random() returns r
quote(value, bid, ask, r, up) ==
  IF ~(bid \/ ask)
  THEN Raise("ValueError", "")
  ELSE LET sign == IF bid THEN -1 ELSE 1
       IN Ok(Round2(value + sign * r, up))

\* one call of quote for the mid value held, its result kept by kind
QuoteCall(bid, ask) ==
  /\ quoted.value # 0
  /\ LET slot == IF bid THEN "bid" ELSE IF ask THEN "ask" ELSE "neither"
     IN /\ quoted[slot] = NoOutcome
        /\ \E r \in Randoms :
             quoted' = [quoted EXCEPT
                          ![slot] = quote(quoted.value, bid, ask, r, quoted.up)]
  /\ UNCHANGED << cache, calls, started, gets, okGets, posts, returned,
                  parsed, overlapped, fetchedBy, chain >>

(***************************************************************************)
(* OptionChain, in its two revisions: constructs/data.py ("data") and      *)
(* constructs/options.py ("options").  The validation the request class    *)
(* applies to the arguments is left out.                                   *)
(***************************************************************************)
MaxChainCalls == 2

\* the caller whose endpoint calls are those of the chain
ChainCaller == 1

\* OptionChain.__init__
OptionChain(rev) ==
  [rev |-> rev, ticker |-> "IBM",
   expiration_range |-> PyNone, delta_range |-> PyNone, response |-> << >>,
   dteArgs |-> << >>, deltaArgs |-> << >>,
   fetchedFor |-> << >>, asked |-> << >>, memo |-> FALSE, out |-> NoOutcome]

\* the default of a filter's bounds, which stands for no bound
NoBound(rev) == IF rev = "data" THEN -1 ELSE PyNone

\* the bounds passed to a filter: the default or a number
ChainBounds(rev, bound) ==
  IF rev = "data" THEN { -1, bound } ELSE { PyNone, PyInt(bound) }

\* the range a filter method computes from its bounds
ChainRange(rev, lower, upper) ==
  IF rev = "data" THEN BoundedRange(lower, upper)
  ELSE PyStr(Join(",", << Str(lower), Str(upper) >>))

\* OptionChain.filter_by_days_to_expiration
FilterByDaysToExpiration(lower, upper) ==
  /\ chain.rev # "none"
  /\ calls[ChainCaller].pc = "idle"
  /\ chain' = [chain EXCEPT
                 !.expiration_range = ChainRange(chain.rev, lower, upper),
                 !.dteArgs = << lower, upper >>]
  /\ UNCHANGED << cache, calls, started, gets, okGets, posts, returned,
                  parsed, overlapped, quoted, fetchedBy >>

\* OptionChain.filter_by_delta: the data revision assigns the
\* days-to-expiration attribute
FilterByDelta(lower, upper) ==
  /\ chain.rev # "none"
  /\ calls[ChainCaller].pc = "idle"
  /\ chain' = IF chain.rev = "data"
              THEN [chain EXCEPT
                      !.expiration_range = ChainRange(chain.rev, lower, upper),
                      !.deltaArgs = << lower, upper >>]
              ELSE [chain EXCEPT
                      !.delta_range = ChainRange(chain.rev, lower, upper),
                      !.deltaArgs = << lower, upper >>]
  /\ UNCHANGED << cache, calls, started, gets, okGets, posts, returned,
                  parsed, overlapped, quoted, fetchedBy >>

\* the trade date and the filters a strikes request was built from
FiltersOf(req) ==
  << Attr(req, "trade_date"), Attr(req, "expiration_range"),
     Attr(req, "delta_range") >>

\* OptionChain._get_strikes up to the endpoint call: the memoized response
\* if there is one, whatever the trade date and the filters; otherwise the
\* request built from the filters and handed to the strikes endpoint
GetStrikes(tradeDate) ==
  /\ chain.rev # "none"
  /\ calls[ChainCaller].pc = "idle"
  /\ IF chain.response # << >>
     THEN /\ chain' = [chain EXCEPT
                         !.asked = << tradeDate, chain.expiration_range,
                                      chain.delta_range >>,
                         !.memo = TRUE,
                         !.out = Ok(chain.response)]
          /\ UNCHANGED << cache, calls, started, gets, okGets, posts,
                          returned, parsed, overlapped, quoted, fetchedBy >>
     ELSE CallSingle(ChainCaller, StrikesEndpoint(PyNone, FALSE),
                     StrikesRequest(PyStr(chain.ticker), PyNone,
                                    chain.expiration_range, chain.delta_range,
                                    tradeDate),
                     MaxChainCalls)

\* OptionChain._get_strikes from the return of the endpoint call: the
\* response is kept (its first record in the data revision) and returned
GetStrikesReturn ==
  /\ chain.rev # "none"
  /\ calls[ChainCaller].pc \in {"done", "failed"}
  /\ LET o == calls[ChainCaller].outcome
         for == FiltersOf(calls[ChainCaller].reqs[1])
         base == [chain EXCEPT !.asked = for, !.memo = FALSE]
     IN chain' =
          IF ~o.ok THEN [base EXCEPT !.out = o]
          ELSE IF chain.rev = "data" /\ o.val = << >>
          THEN [base EXCEPT !.out = Raise("IndexError", "")]
          ELSE [base EXCEPT
                  !.response = IF chain.rev = "data" THEN << o.val[1] >>
                               ELSE o.val,
                  !.fetchedFor = for,
                  !.out = Ok(IF chain.rev = "data" THEN << o.val[1] >>
                             ELSE o.val)]
  /\ calls' = [calls EXCEPT ![ChainCaller] = Idle]
  /\ UNCHANGED << cache, started, gets, okGets, posts, returned, parsed,
                  overlapped, quoted, fetchedBy >>

(***************************************************************************)
(* Specifications.                                                         *)
(***************************************************************************)
Next ==
  \E c \in Callers :
    \/ \E o \in ProtoSingles : CallSingle(c, o.ep, o.reqs[1], MaxCalls)
    \/ \E r \in ProtoReplies : ReceiveSingle(c, r)
    \/ Cancel(c)
    \/ Return(c)

Spec == Init /\ [][Next]_vars

NextParse ==
  \E c \in Callers :
    \/ \E o \in ParseSingles : CallSingle(c, o.ep, o.reqs[1], MaxParseCalls)
    \/ \E o \in ParseByOptions :
         CallByOptions(c, o.ep, o.reqs, MaxParseCalls)
    \/ \E o \in ParseLegacy :
         LegacyQuery(c, o.ep.token, o.reqs[1], MaxParseCalls)
    \/ \E r \in ParseReplies : ReceiveSingle(c, r)
    \/ \E r \in ParseReplies : ReceiveBatch(c, r)
    \/ \E r \in ParseReplies : LegacyReceive(c, r)
    \/ Cancel(c)
    \/ Return(c)

SpecParse == Init /\ [][NextParse]_vars

NextWire ==
  \E c \in Callers :
    \/ \E o \in WireSingles : CallSingle(c, o.ep, o.reqs[1], MaxWireCalls)
    \/ \E o \in WireByOptions : CallByOptions(c, o.ep, o.reqs, MaxWireCalls)
    \/ \E o \in WireLegacy :
         LegacyQuery(c, o.ep.token, o.reqs[1], MaxWireCalls)
    \/ \E r \in WireReplies : ReceiveSingle(c, r)
    \/ \E r \in WireReplies : ReceiveBatch(c, r)
    \/ \E r \in WireReplies : LegacyReceive(c, r)
    \/ Cancel(c)
    \/ Return(c)

SpecWire == Init /\ [][NextWire]_vars

\* quote applied to every mid value, once per kind of price
InitQuote ==
  /\ cache = << >>
  /\ calls = [c \in Callers |-> Idle]
  /\ started = 0
  /\ gets = << >>
  /\ okGets = << >>
  /\ posts = 0
  /\ returned = << >>
  /\ parsed = << >>
  /\ overlapped = FALSE
  /\ quoted \in { [NoQuote EXCEPT !.value = v, !.up = up] :
                    v \in Mids, up \in BOOLEAN }
  /\ fetchedBy = << >>
  /\ chain = NoChain

NextQuote == \E bid, ask \in BOOLEAN : QuoteCall(bid, ask)

SpecQuote == InitQuote /\ [][NextQuote]_vars

\* cache keys: requests of one resource whose values differ, and requests
\* of two resources with equal values
MaxKeyCalls == 2

KeySingles ==
  { Option(TickersEndpoint(PyStr("demo"), FALSE), << TickersRequest(t) >>) :
      t \in { PyNone, PyStr("None"), PyStr("IBM") } }
  \cup { Option(DividendHistoryEndpoint(PyStr("demo"), FALSE),
                << DividendHistoryRequest(PyStr("IBM")) >>) }

KeyReplies == { OkReply(<< E1 >>), OkReply(<< E1, E2 >>) }

NextKey ==
  \E c \in Callers :
    \/ \E o \in KeySingles : CallSingle(c, o.ep, o.reqs[1], MaxKeyCalls)
    \/ \E r \in KeyReplies : ReceiveSingle(c, r)
    \/ Return(c)

SpecKey == Init /\ [][NextKey]_vars

\* one OptionChain of either revision: filters set and strikes asked for
ChainReplies == { OkReply(<< >>), OkReply(<< E1, E2 >>) }

InitChain ==
  /\ cache = << >>
  /\ calls = [c \in Callers |-> Idle]
  /\ started = 0
  /\ gets = << >>
  /\ okGets = << >>
  /\ posts = 0
  /\ returned = << >>
  /\ parsed = << >>
  /\ overlapped = FALSE
  /\ quoted = NoQuote
  /\ fetchedBy = << >>
  /\ chain \in { OptionChain(rev) : rev \in {"data", "options"} }

NextChain ==
  \/ \E lower \in ChainBounds(chain.rev, 30) :
       FilterByDaysToExpiration(lower, NoBound(chain.rev))
  \/ \E upper \in ChainBounds(chain.rev, 1) :
       FilterByDelta(NoBound(chain.rev), upper)
  \/ \E tradeDate \in TradeDates : GetStrikes(tradeDate)
  \/ \E r \in ChainReplies : ReceiveSingle(ChainCaller, r)
  \/ GetStrikesReturn

SpecChain == InitChain /\ [][NextChain]_vars

\* mock mode only: endpoints constructed with mock = True, several calls
MaxMockCalls == 2

MockSingles ==
  { Option(TickersEndpoint(PyStr("demo"), TRUE), << TickersRequest(t) >>) :
      t \in { PyNone, PyStr("IBM") } }
  \cup { Option(StrikesEndpoint(PyStr("demo"), TRUE),
                << StrikesRequest(PyList(<< "IBM", "AAPL" >>), PyNone, PyNone,
                                  PyNone, PyNone) >>),
          Option(MoniesForecastEndpoint(PyNone, TRUE),
                << MoniesRequest(PyList(<< "IBM" >>), PyNone, PyNone) >>) }

MockByOptions ==
  { Option(StrikesByOptionsEndpoint(PyStr("demo"), TRUE), reqs) :
      reqs \in { << >>,
                 << ByOptions(50, PyNone) >>,
                 << ByOptions(50, PyNone), ByOptions(55, PyNone) >> } }

NextMock ==
  \E c \in Callers :
    \/ \E o \in MockSingles : CallSingle(c, o.ep, o.reqs[1], MaxMockCalls)
    \/ \E o \in MockByOptions : CallByOptions(c, o.ep, o.reqs, MaxMockCalls)
    \/ Return(c)

SpecMock == Init /\ [][NextMock]_vars

TypeOK ==
  /\ started \in 0..(MaxCalls + MaxParseCalls + MaxWireCalls + MaxMockCalls
                       + MaxKeyCalls + MaxChainCalls + 3)
  /\ \A c \in Callers :
       calls[c].pc \in {"idle", "waiting", "done", "failed", "cancelled"}

(***************************************************************************)
(* Properties of the cache protocol (specification Spec).                  *)
(***************************************************************************)
SingleCall(c) ==
  /\ calls[c].pc # "idle"
  /\ ~calls[c].legacy
  /\ ~calls[c].ep.mock
  /\ Len(calls[c].reqs) = 1

FailsInTransport(reply) ==
  \/ reply.kind = "failure"
  \/ reply.kind = "reply" /\ (reply.status = 403 \/ ~reply.decodable)

\* the replies on which a call fails in envelope parsing
FailsInParsing(reply) ==
  /\ reply.kind = "reply"
  /\ reply.status # 403
  /\ reply.decodable
  /\ \/ ~IsNone(reply.env.error)
     \/ ~IsNone(reply.env.message)
     \/ /\ ~IsNone(reply.env.data)
        /\ \E i \in 1..Len(reply.env.data.v) :
             ~ValidElement(reply.env.data.v[i])

ErrorKindOf(reply) ==
  IF reply.kind = "failure" THEN {"ConnectError"}
  ELSE IF reply.status = 403 THEN {"InsufficientPermissionsError"}
  ELSE IF ~reply.decodable THEN {"JSONDecodeError"}
  ELSE {"OratsError", "ValidationError"}

\* C2: a step in which a non-mock single-request call gets a reply that
\* fails in the transport or in envelope parsing leaves the cache as it was
\* and hands the caller that error; and a call for parameters that no reply
\* was ever parsed for is never answered from the cache: it makes a GET.
FailureNotCached ==
  [][\A c \in Callers :
       /\ ( /\ calls[c].pc = "waiting"
            /\ SingleCall(c)
            /\ calls'[c].pc \in {"done", "failed"}
            /\ \/ FailsInTransport(calls'[c].reply)
               \/ FailsInParsing(calls'[c].reply) )
          => /\ cache' = cache
             /\ calls'[c].pc = "failed"
             /\ ~calls'[c].outcome.ok
             /\ calls'[c].outcome.kind \in ErrorKindOf(calls'[c].reply)
       /\ ( /\ calls[c].pc = "idle"
            /\ calls'[c].pc # "idle"
            /\ ~calls'[c].legacy
            /\ ~calls'[c].ep.mock
            /\ Len(calls'[c].reqs) = 1
            /\ calls'[c].id \notin DOMAIN parsed )
          => /\ calls'[c].pc = "waiting"
             /\ calls'[c].sent.method = "GET"
             /\ At(gets', calls'[c].id, 0) = At(gets, calls'[c].id, 0) + 1
    ]_vars

\* a call failed, nothing was cached, and the same parameters are being
\* sent to the transport a second time
FailureNotCachedWitness ==
  /\ ~overlapped
  /\ \E c, d \in Callers :
       /\ SingleCall(c)
       /\ calls[c].pc = "waiting"
       /\ SingleCall(d)
       /\ calls[d].pc = "failed"
       /\ calls[d].id = calls[c].id
       /\ At(gets, calls[c].id, 0) = 2
       /\ calls[c].key \notin DOMAIN cache

\* C3: every cache entry is a record sequence parsed from a successful
\* reply to a call for that key, and a step that suspends a call at the
\* transport or cancels a suspended call writes nothing to the cache.
OnlyParsedResultsCached ==
  /\ [](\A k \in DOMAIN cache :
          \E id \in DOMAIN parsed :
            /\ Key(id[1], id[2]) = k
            /\ cache[k] \in parsed[id])
  /\ [][\A c \in Callers :
          (calls'[c] # calls[c] /\ calls'[c].pc \in {"waiting", "cancelled"})
            => cache' = cache]_vars

\* one call is cancelled while the other, for the same key, completed and
\* was cached
OnlyParsedResultsCachedWitness ==
  \E c, d \in Callers :
    /\ calls[c].pc = "cancelled"
    /\ calls[d].pc = "done"
    /\ ~calls[d].hit
    /\ SingleCall(d)
    /\ calls[d].key = calls[c].key
    /\ calls[d].key \in DOMAIN cache

(***************************************************************************)
(* Properties of reply handling (specification SpecParse).                 *)
(***************************************************************************)
NonEmptyString(x) == ~IsNone(x) /\ x.v # ""

\* an envelope with a non-empty data list and a non-empty error or message
DataAndError(reply) ==
  /\ reply.kind = "reply"
  /\ reply.status # 403
  /\ reply.decodable
  /\ ~IsNone(reply.env.data)
  /\ reply.env.data.v # << >>
  /\ NonEmptyString(reply.env.error) \/ NonEmptyString(reply.env.message)

\* C4: when the envelope handed to the parser has both a non-empty data
\* list and a non-empty error or message, the endpoint call (single GET or
\* batch POST) fails with the server-reported error, whatever the data
\* elements are, and the step writes nothing to the cache.
ErrorPrecedence ==
  [][\A c \in Callers :
       ( /\ calls[c].pc = "waiting"
         /\ ~calls[c].legacy
         /\ calls'[c].pc \in {"done", "failed"}
         /\ DataAndError(calls'[c].reply) )
       => /\ calls'[c].pc = "failed"
          /\ calls'[c].outcome.kind = "OratsError"
          /\ cache' = cache
    ]_vars

\* the server-reported error was raised over a data list holding an element
\* that fails schema validation
ErrorPrecedenceWitness ==
  \E c \in Callers :
    /\ calls[c].pc = "failed"
    /\ ~calls[c].legacy
    /\ DataAndError(calls[c].reply)
    /\ \E i \in 1..Len(calls[c].reply.env.data.v) :
         ~ValidElement(calls[c].reply.env.data.v[i])
    /\ calls[c].reply.env.error = PyStr("boom")
    /\ calls[c].outcome = OratsError("boom")

Completed(c) == calls[c].pc \in {"done", "failed"} /\ calls[c].reply.kind = "reply"

\* C5: a call that received a reply with status 403 has failed with the
\* permission error, whatever the method and the body.
PermissionMapping ==
  \A c \in Callers :
    (Completed(c) /\ calls[c].reply.status = 403)
      => /\ calls[c].pc = "failed"
         /\ calls[c].outcome.kind \in
              {"InsufficientPermissionsError", "UnauthorizedUserError"}

\* C6: a call that received a reply with a status other than 200 and 403
\* has failed with a generic transport error and stored nothing.
GenericTransportError ==
  \A c \in Callers :
    (Completed(c) /\ calls[c].reply.status \notin {200, 403})
      => /\ calls[c].pc = "failed"
         /\ calls[c].outcome.kind = "TransportError"
         /\ calls[c].key \notin DOMAIN cache

(***************************************************************************)
(* Properties of dispatch (specification SpecWire).                        *)
(***************************************************************************)
Dispatched(c) == calls[c].pc # "idle" /\ calls[c].sent.method # "none"

ByOptionsCall(c) ==
  /\ calls[c].pc # "idle"
  /\ ~calls[c].legacy
  /\ ~calls[c].ep.mock
  /\ calls[c].ep.resource = "strikes/options"

\* C7: a non-mock by-options call uses POST only when it holds more than
\* one request, and a call with one request never uses POST.
BatchOnlyForSeveral ==
  \A c \in Callers :
    (ByOptionsCall(c) /\ calls[c].sent.method = "POST")
      => Len(calls[c].reqs) > 1

AlwaysHistorical == {"dailies", "hvs", "divs", "earnings", "splits"}

CarriesTradeDate(req) ==
  HasField(req, "trade_date") /\ ~IsNone(Attr(req, "trade_date"))

CurrentPath(resource) == BaseUrl \o "/" \o resource
HistoricalPath(resource) == BaseUrl \o "/hist/" \o resource

\* C8: the GET of a non-mock single-request call goes to the historical
\* path exactly when the request carries a trade date or the resource is
\* one of the always-historical ones, and to the current path otherwise.
HistoricalPathChoice ==
  \A c \in Callers :
    (SingleCall(c) /\ calls[c].sent.method = "GET")
      => LET req == calls[c].reqs[1]
             res == calls[c].ep.resource
         IN IF CarriesTradeDate(req) \/ res \in AlwaysHistorical
            THEN calls[c].sent.url = HistoricalPath(res)
            ELSE calls[c].sent.url = CurrentPath(res)

\* both reasons for the historical path occur: a trade date on a resource
\* with a current path, and an always-historical resource without one
HistoricalPathChoiceWitness ==
  \E c \in Callers :
    /\ SingleCall(c)
    /\ calls[c].sent.method = "GET"
    /\ calls[c].sent.url = HistoricalPath(calls[c].ep.resource)
    /\ calls[c].ep.resource = "dailies"
    /\ ~CarriesTradeDate(calls[c].reqs[1])

\* C9: the POST of a batch by-options call whose requests carry a trade
\* date goes to the historical path.
BatchHistoricalPath ==
  \A c \in Callers :
    ( /\ ByOptionsCall(c)
      /\ calls[c].sent.method = "POST"
      /\ calls[c].reqs # << >>
      /\ \A i \in 1..Len(calls[c].reqs) : CarriesTradeDate(calls[c].reqs[i]) )
    => calls[c].sent.url = HistoricalPath("strikes/options")

ParamsWithKey(params, k) == { i \in 1..Len(params) : params[i].k = k }

\* C10: in the parameters of a single-entity GET no field whose value is
\* None has a key, no parameter value is None, and every list-valued field
\* has exactly one parameter, under its alias, holding the comma-joined
\* elements.
NoneOmittedListsJoined ==
  \A c \in Callers :
    (Dispatched(c) /\ calls[c].sent.method = "GET")
      => LET req == calls[c].reqs[1]
             params == calls[c].sent.params
         IN /\ \A i \in 1..Len(params) : ~IsNone(params[i].v)
            /\ \A i \in 1..Len(req.fields) :
                 LET f == req.fields[i]
                 IN /\ IsNone(f.val) => ParamsWithKey(params, f.alias) = {}
                    /\ f.val.t = "list" =>
                         /\ Cardinality(ParamsWithKey(params, f.alias)) = 1
                         /\ \A j \in ParamsWithKey(params, f.alias) :
                              params[j].v = PyStr(Join(",", f.val.v))

\* a request with a None field and two list-valued fields was rendered
NoneOmittedListsJoinedWitness ==
  \E c \in Callers :
    /\ Dispatched(c)
    /\ ~calls[c].legacy
    /\ calls[c].sent.method = "GET"
    /\ HasField(calls[c].reqs[1], "trade_date")
    /\ IsNone(Attr(calls[c].reqs[1], "trade_date"))
    /\ \E i, j \in 1..Len(calls[c].sent.params) :
         /\ calls[c].sent.params[i] = Param("ticker", PyStr("IBM,AAPL"))
         /\ calls[c].sent.params[j] = Param("fields", PyStr("ticker,dte"))

(***************************************************************************)
(* Properties of the credential (specification SpecWire).                  *)
(***************************************************************************)
Supplied(token) == ~IsNone(token) /\ token.v # ""

\* C11: every GET and POST handed to the transport has exactly one "token"
\* parameter, and its value is the credential the endpoint was constructed
\* with, or the fallback credential when none (None or the empty string)
\* was given.
TokenOnEveryInvocation ==
  \A c \in Callers :
    Dispatched(c)
      => LET params == calls[c].sent.params
             given == calls[c].ep.given
         IN /\ Cardinality(ParamsWithKey(params, "token")) = 1
            /\ \A i \in ParamsWithKey(params, "token") :
                 params[i].v =
                   PyStr(IF Supplied(given) THEN given.v ELSE GetToken)

\* a batch POST of an endpoint constructed without a credential carries the
\* fallback
TokenOnEveryInvocationWitness ==
  \E c \in Callers :
    /\ Dispatched(c)
    /\ calls[c].sent.method = "POST"
    /\ calls[c].ep.given = PyNone
    /\ calls[c].sent.params = << Param("token", PyStr("demo")) >>

(***************************************************************************)
(* Properties of bounded-range rendering (specification SpecWire).         *)
(***************************************************************************)
RangeAliases == {"dte", "delta"}

\* the unbounded side: Ellipsis in a range tuple, None as an argument of
\* bounds
Unbounded(b) == b = PyEllipsis \/ b = PyNone

\* the wire form of one side: empty when unbounded
Segment(b) == IF Unbounded(b) THEN "" ELSE Str(b)

BoundArguments == { PyNone, PyInt(30), PyInt(45) }

\* the pair of bounds a range field stands for: the two elements of a tuple,
\* or the arguments that bounds joined into a string
PairsOf(v) ==
  IF v.t = "tuple" THEN { v.v }
  ELSE IF v.t = "str"
  THEN { pair \in BoundArguments \X BoundArguments :
           Bounds(pair[1], pair[2]) = v.v }
  ELSE {}

\* the parameters the call would send for another request
ParamsFor(c, req) ==
  IF calls[c].legacy THEN LegacySend(calls[c].ep.token, req).params
  ELSE Get(calls[c].ep, req).params

\* C12: a range filter with exactly one unbounded side is sent under its
\* key as "<lower>,<upper>" with the unbounded side empty ("30," or ",45").
UnboundedSideEmpty ==
  \A c \in Callers :
    (Dispatched(c) /\ calls[c].sent.method = "GET")
      => LET req == calls[c].reqs[1]
             params == calls[c].sent.params
         IN \A i \in 1..Len(req.fields) :
              LET f == req.fields[i]
              IN f.alias \in RangeAliases =>
                   \A pair \in PairsOf(f.val) :
                     (Unbounded(pair[1]) # Unbounded(pair[2]))
                       => /\ ParamsWithKey(params, f.alias) # {}
                          /\ \A j \in ParamsWithKey(params, f.alias) :
                               params[j].v =
                                 PyStr(Segment(pair[1]) \o ","
                                         \o Segment(pair[2]))

\* C13: a range filter with both sides unbounded sends exactly the
\* parameters of the same request without the filter: no key for it.
FullyUnboundedOmitted ==
  \A c \in Callers :
    (Dispatched(c) /\ calls[c].sent.method = "GET")
      => LET req == calls[c].reqs[1]
             params == calls[c].sent.params
         IN \A i \in 1..Len(req.fields) :
              LET f == req.fields[i]
              IN f.alias \in RangeAliases =>
                   \A pair \in PairsOf(f.val) :
                     (Unbounded(pair[1]) /\ Unbounded(pair[2]))
                       => /\ ParamsWithKey(params, f.alias) = {}
                          /\ params =
                               ParamsFor(c, [req EXCEPT
                                               !.fields[i].val = PyNone])

(***************************************************************************)
(* Properties of request validation (specification SpecWire).              *)
(***************************************************************************)
HistoryCapable == {"DailyPriceRequest", "HistoricalVolatilityRequest"}

\* C14: no request of a history-capable multi-ticker resource with neither
\* tickers nor trade date comes out of construction, so none is ever the
\* request of a call.
TickersOrTradeDate ==
  \A c \in Callers :
    (calls[c].pc # "idle" /\ calls[c].reqs # << >>
       /\ calls[c].reqs[1].cls \in HistoryCapable)
      => ~( /\ IsNone(Attr(calls[c].reqs[1], "tickers"))
            /\ IsNone(Attr(calls[c].reqs[1], "trade_date")) )

(***************************************************************************)
(* Properties of mock mode (specification SpecWire).                       *)
(***************************************************************************)
MockCall(c) == calls[c].pc = "done" /\ ~calls[c].legacy /\ calls[c].ep.mock

Monies == {"monies/implied", "monies/forecast"}

\* C15: a mock call with one request that names tickers returns one record
\* per named ticker, in the given order, each carrying its ticker; for the
\* monies resources it returns, per ticker in order, the 15 records of the
\* tenors 1, 8, ..., 99.
MockOnePerTicker ==
  \A c \in Callers :
    (MockCall(c) /\ Len(calls[c].reqs) = 1
       /\ NamedTickers(calls[c].reqs[1]) # << >>)
      => LET named == NamedTickers(calls[c].reqs[1])
             out == calls[c].outcome.val
         IN IF calls[c].ep.resource \in Monies
            THEN /\ Len(out) = 15 * Len(named)
                 /\ \A i \in 1..Len(named) : \A j \in 1..15 :
                      /\ out[15 * (i - 1) + j].ticker = named[i]
                      /\ out[15 * (i - 1) + j].dte = 7 * j - 6
            ELSE /\ Len(out) = Len(named)
                 /\ \A i \in 1..Len(named) : out[i].ticker = named[i]

\* a mock monies call for two tickers returned thirty records, the last
\* one for the second ticker at 99 days
MockOnePerTickerWitness ==
  \E c \in Callers :
    /\ MockCall(c)
    /\ calls[c].ep.resource = "monies/implied"
    /\ NamedTickers(calls[c].reqs[1]) = << "IBM", "AAPL" >>
    /\ Len(calls[c].outcome.val) = 30
    /\ calls[c].outcome.val[30].ticker = "AAPL"
    /\ calls[c].outcome.val[30].dte = 99

\* a completed by-options call with several requests
BatchDone(c) ==
  /\ calls[c].pc = "done"
  /\ ~calls[c].legacy
  /\ calls[c].ep.resource = "strikes/options"
  /\ Len(calls[c].reqs) >= 2

OnePerRequest(c) ==
  /\ Len(calls[c].outcome.val) = Len(calls[c].reqs)
  /\ \A i \in 1..Len(calls[c].reqs) :
       calls[c].outcome.val[i].ticker = Attr(calls[c].reqs[i], "ticker").v

\* C16: a by-options call with k >= 2 requests returns k records, the i-th
\* carrying the ticker of the i-th request.
BatchOnePerRequest ==
  \A c \in Callers : BatchDone(c) => OnePerRequest(c)

\* C17: a bid quote is at most the mid value, an ask quote is at least the
\* mid value, so the bid is at most the ask; quote with neither flag raises
\* ValueError and returns no price.
QuoteBrackets ==
  /\ quoted.bid.ok => quoted.bid.val <= quoted.value
  /\ quoted.ask.ok => quoted.ask.val >= quoted.value
  /\ (quoted.bid.ok /\ quoted.ask.ok) => quoted.bid.val <= quoted.ask.val
  /\ quoted.neither \in { NoOutcome, Raise("ValueError", "") }

(***************************************************************************)
(* Overlapping calls for one resource and equal parameters.                *)
(***************************************************************************)
\* caller c starts a non-mock single-request call in this step
Starts(c) ==
  /\ calls[c].pc = "idle"
  /\ calls'[c].pc # "idle"
  /\ ~calls'[c].legacy
  /\ ~calls'[c].ep.mock
  /\ Len(calls'[c].reqs) = 1

\* caller c gets the result of its GET in this step
Completes(c) ==
  /\ calls[c].pc = "waiting"
  /\ SingleCall(c)
  /\ calls'[c].pc = "done"

\* C18: with calls for one resource and equal parameters interleaved at the
\* transport, each call makes at most one GET, and only while no call for
\* them has returned a result; a call that gets its result leaves exactly
\* that result as the entry of the key, whatever was there (last writer
\* wins); and a call that starts after one of them returned its result is
\* answered with the entry, making no GET.
OverlapKeepsCache ==
  [][/\ \A c \in Callers :
       /\ Starts(c) =>
            LET id == calls'[c].id
            IN /\ started' = started + 1
               /\ At(gets', id, 0) \in { At(gets, id, 0), At(gets, id, 0) + 1 }
               /\ \A other \in DOMAIN gets' \ {id} :
                    gets'[other] = At(gets, other, 0)
               /\ IF At(okGets, id, 0) = 0
                  THEN /\ calls'[c].pc = "waiting"
                       /\ gets'[id] = At(gets, id, 0) + 1
                  ELSE /\ calls'[c].pc = "done"
                       /\ calls'[c].hit
                       /\ gets' = gets
                       /\ calls'[c].key \in DOMAIN cache
                       /\ calls'[c].outcome = Ok(cache[calls'[c].key])
                       /\ cache' = cache
       /\ Completes(c) =>
            /\ gets' = gets
            /\ calls[c].key \in DOMAIN cache'
            /\ cache'[calls[c].key] = calls'[c].outcome.val
            /\ \A k \in DOMAIN cache' \ {calls[c].key} :
                 k \in DOMAIN cache /\ cache'[k] = cache[k]
     /\ gets' # gets => \E c \in Callers : Starts(c)]_vars

\* two overlapping calls made one GET each and got different results; a
\* third call that started afterwards was answered with the one written
\* last
OverlapKeepsCacheWitness ==
  /\ overlapped
  /\ \E c \in Callers :
       /\ SingleCall(c)
       /\ calls[c].pc = "done"
       /\ calls[c].hit
       /\ At(gets, calls[c].id, 0) = 2
       /\ At(okGets, calls[c].id, 0) = 2
       /\ Cardinality(At(parsed, calls[c].id, {})) = 2
       /\ calls[c].outcome.val = cache[calls[c].key]
       /\ \E d \in Callers \ {c} :
            /\ calls[d].pc = "done"
            /\ ~calls[d].hit
            /\ calls[d].id = calls[c].id
            /\ calls[d].outcome = calls[c].outcome

\* C19: the result of every non-mock call that returned, a by-options call
\* with several requests included, is an entry of the cache.
SuccessCached ==
  \A c \in Callers :
    (calls[c].pc = "done" /\ ~calls[c].legacy /\ ~calls[c].ep.mock)
      => \E k \in DOMAIN cache : cache[k] = calls[c].outcome.val

\* C20: the records a mock call returns were produced by the envelope
\* parser, as the records of a network reply are.
MockThroughParser ==
  \A c \in Callers :
    (calls[c].pc = "done" /\ calls[c].ep.mock)
      => \E id \in DOMAIN parsed : calls[c].outcome.val \in parsed[id]

(***************************************************************************)
(* Mock mode and the cache.                                                *)
(***************************************************************************)
MockDone(c) == calls[c].pc = "done" /\ ~calls[c].legacy /\ calls[c].ep.mock

\* C21: two mock calls through the same endpoint with equal request
\* parameter values return equal record sequences.
MockRepeatable ==
  \A c, d \in Callers :
    ( /\ MockDone(c)
      /\ MockDone(d)
      /\ calls[c].ep = calls[d].ep
      /\ calls[c].reqs = calls[d].reqs )
      => calls[c].outcome = calls[d].outcome

\* C22: in mock mode no call, single or batch, with or without tickers,
\* reaches the transport: no GET and no POST is made and no call waits for
\* a reply.
MockNeverCallsTransport ==
  /\ posts = 0
  /\ \A id \in DOMAIN gets : gets[id] = 0
  /\ \A c \in Callers :
       (calls[c].pc # "idle" /\ calls[c].ep.mock)
         => /\ calls[c].pc = "done"
            /\ calls[c].sent = NoInvocation

\* a batch call and a call naming no ticker, both in mock mode, have
\* returned records
MockNeverCallsTransportWitness ==
  /\ posts = 0
  /\ gets = << >>
  /\ \E c, d \in Callers :
       /\ MockDone(c)
       /\ calls[c].ep.resource = "strikes/options"
       /\ Len(calls[c].reqs) = 2
       /\ Len(calls[c].outcome.val) = 2
       /\ MockDone(d)
       /\ calls[d].ep.resource = "tickers"
       /\ NamedTickers(calls[d].reqs[1]) = << >>
       /\ calls[d].outcome.val # << >>

(***************************************************************************)
(* Envelope shapes.                                                        *)
(***************************************************************************)
\* a decodable reply whose envelope has no data (absent or null) and no
\* error and no message
NoData(reply) ==
  /\ reply.kind = "reply"
  /\ reply.status # 403
  /\ reply.decodable
  /\ reply.env = NoEnvelope

\* C23: a call that gets an envelope with no data, no error and no message
\* returns the empty record sequence and leaves it as the entry of its key;
\* while the entry is empty, a call for that key is answered from the cache
\* with the empty sequence and makes no GET.
NoDataIsEmptyAndCached ==
  [][\A c \in Callers :
       /\ ( /\ calls[c].pc = "waiting"
            /\ SingleCall(c)
            /\ calls'[c].pc # "waiting"
            /\ NoData(calls'[c].reply) )
          => /\ calls'[c].pc = "done"
             /\ calls'[c].outcome = Ok(<< >>)
             /\ calls[c].key \in DOMAIN cache'
             /\ cache'[calls[c].key] = << >>
       /\ ( /\ Starts(c)
            /\ calls'[c].key \in DOMAIN cache
            /\ cache[calls'[c].key] = << >> )
          => /\ calls'[c].pc = "done"
             /\ calls'[c].hit
             /\ calls'[c].outcome = Ok(<< >>)
             /\ gets' = gets]_vars

\* one GET was answered with no data, and a later equal call was answered
\* from the cache with the empty sequence
NoDataIsEmptyAndCachedWitness ==
  \E c \in Callers :
    /\ SingleCall(c)
    /\ calls[c].pc = "done"
    /\ calls[c].hit
    /\ calls[c].outcome = Ok(<< >>)
    /\ At(gets, calls[c].id, 0) = 1
    /\ At(parsed, calls[c].id, {}) = { << >> }

\* a decodable reply whose data list holds an element that lacks a
\* required field or holds a value that cannot be coerced
HasBadElement(reply) ==
  /\ reply.kind = "reply"
  /\ reply.status # 403
  /\ reply.decodable
  /\ ~IsNone(reply.env.data)
  /\ \E i \in 1..Len(reply.env.data.v) : ~ValidElement(reply.env.data.v[i])

\* C24: a call, single or batch, whose reply holds a data list with an
\* invalid element fails as a whole: it returns no records, the cache is
\* left as it was, and the error is the validation error (the
\* server-reported error when the envelope carries one as well).
BadElementFailsWholeCall ==
  [][\A c \in Callers :
       ( /\ calls[c].pc = "waiting"
         /\ ~calls[c].legacy
         /\ calls'[c].pc \in {"done", "failed"}
         /\ HasBadElement(calls'[c].reply) )
       => /\ calls'[c].pc = "failed"
          /\ ~calls'[c].outcome.ok
          /\ calls'[c].outcome.kind =
               IF /\ IsNone(calls'[c].reply.env.error)
                  /\ IsNone(calls'[c].reply.env.message)
               THEN "ValidationError" ELSE "OratsError"
          /\ cache' = cache]_vars

\* a GET answered with a valid element followed by an invalid one failed
\* with the validation error and left the cache empty
BadElementFailsWholeCallWitness ==
  \E c \in Callers :
    /\ SingleCall(c)
    /\ calls[c].pc = "failed"
    /\ HasBadElement(calls[c].reply)
    /\ Len(calls[c].reply.env.data.v) = 2
    /\ ValidElement(calls[c].reply.env.data.v[1])
    /\ calls[c].outcome.kind = "ValidationError"
    /\ cache = << >>

\* a decodable reply whose error and message are each absent, null or the
\* empty string, and whose data, if any, is valid
NoFailureReported(reply) ==
  /\ reply.kind = "reply"
  /\ reply.status # 403
  /\ reply.decodable
  /\ ~NonEmptyString(reply.env.error)
  /\ ~NonEmptyString(reply.env.message)
  /\ ~HasBadElement(reply)

\* C25: a call whose envelope has no error and no message, or has them as
\* empty strings, does not fail: its data list is parsed and returned.
EmptyErrorIsNoFailure ==
  \A c \in Callers :
    ( /\ calls[c].pc \in {"done", "failed"}
      /\ ~calls[c].legacy
      /\ NoFailureReported(calls[c].reply) )
    => /\ calls[c].pc = "done"
       /\ calls[c].outcome =
            Ok(DataOrEmpty(ParseEnvelopeDataOnly(calls[c].reply.env).val))

(***************************************************************************)
(* The body of a batch call.                                               *)
(***************************************************************************)
NotNull(p) == p.v.t # "null"

\* the wire rendering of one request: alias and value of every field whose
\* value is not None
RenderedAlone(req) == SelectSeq(JsonOfRequest(req), NotNull)

\* C26: the body of a batch POST has one element per request, in argument
\* order, each the rendering of that request with wire aliases as keys and
\* the None-valued fields left out.
BatchBodyRendering ==
  \A c \in Callers :
    (Dispatched(c) /\ calls[c].sent.method = "POST")
      => /\ Len(calls[c].sent.body) = Len(calls[c].reqs)
         /\ \A i \in 1..Len(calls[c].reqs) :
              calls[c].sent.body[i] = RenderedAlone(calls[c].reqs[i])

(***************************************************************************)
(* The cache key.                                                          *)
(***************************************************************************)
\* C27: calls that differ in resource or in a parameter value have
\* different cache keys, and a call answered from the cache returns records
\* that were parsed for its own resource and parameter values.
KeyInjective ==
  /\ \A c, d \in Callers :
       (SingleCall(c) /\ SingleCall(d) /\ calls[c].key = calls[d].key)
         => calls[c].id = calls[d].id
  /\ \A c \in Callers :
       (SingleCall(c) /\ calls[c].pc = "done" /\ calls[c].hit)
         => calls[c].outcome.val \in At(parsed, calls[c].id, {})

\* C28: a call through an endpoint whose token has not fetched the records
\* of its resource and parameter values is not answered from the cache: it
\* makes a GET that carries its own token.
CacheSeparatesTokens ==
  [][\A c \in Callers :
       ( /\ Starts(c)
         /\ calls'[c].ep.token \notin At(fetchedBy, calls'[c].id, {}) )
       => /\ ~calls'[c].hit
          /\ calls'[c].pc = "waiting"
          /\ calls'[c].sent.method = "GET"
          /\ calls'[c].sent.params[1] =
               Param("token", PyStr(calls'[c].ep.token))]_vars

(***************************************************************************)
(* OptionChain: filters and the memoized response.                         *)
(***************************************************************************)
\* the range a filter holds after its method was called with these bounds
FilterGiven(args) ==
  IF args = << >> THEN PyNone ELSE ChainRange(chain.rev, args[1], args[2])

\* C29: each filter of an OptionChain holds the range last given to its own
\* method, whatever was given to the other method and in whichever order,
\* and the strikes request being made carries both.
FiltersIndependent ==
  chain.rev # "none" =>
    /\ chain.expiration_range = FilterGiven(chain.dteArgs)
    /\ chain.delta_range = FilterGiven(chain.deltaArgs)
    /\ calls[ChainCaller].pc # "idle" =>
         FiltersOf(calls[ChainCaller].reqs[1])[2] = FilterGiven(chain.dteArgs)
    /\ calls[ChainCaller].pc # "idle" =>
         FiltersOf(calls[ChainCaller].reqs[1])[3]
           = FilterGiven(chain.deltaArgs)

\* C30: the strikes an OptionChain returns from its memoized response were
\* fetched for the trade date and the filters of the call that returns
\* them.
MemoMatchesCall ==
  (chain.rev # "none" /\ chain.memo) => chain.asked = chain.fetchedFor

====
